---- MODULE Spec2Model ----
(***************************************************************************)
(* contractmgr: the contract catalog, the keep registry behind an RwLock   *)
(* and the six warp routes of serve(), with each request handled by its    *)
(* own task so that handlers interleave at the registry lock.              *)
(*                                                                         *)
(* A Uuid is 128 bits wide; the model names a Uuid by a small natural: the *)
(* four catalog uuids by their leading 16 bits, the uuids drawn by         *)
(* Uuid::new_v4 by 1..MaxKeepIds.  A URL path is the sequence of its       *)
(* segments, "/keeps/x" being <<"keeps", "x">>.                            *)
(*                                                                         *)
(* Spec runs the requests that reach the registry on NumProcs concurrent   *)
(* tasks; SpecRouter runs every request, routed or not, one at a time.     *)
(*                                                                         *)
(* SpecMain starts contractmgr from its command line: Listener::from_str   *)
(* on the listen argument, main(), and then the requests of SpecRouter.    *)
(* SpecKeepmgr is keepmgr, with the device nodes its backends need coming  *)
(* and going; SpecServices is contractmgr and keepmgr side by side.        *)
(* SpecClient is the command-line client against any server's response.    *)
(***************************************************************************)
EXTENDS Integers, Sequences, FiniteSets, TLC

\* ---- bounds ----
NumProcs == 2
MaxKeepIds == 2
MaxReqs == 3

Procs == 1..NumProcs
KeepIds == 1..MaxKeepIds

\* ---- koine / franca data ----
Backends == {"Nil", "Sev", "Sgx", "Kvm"}

\* a name table that spells every backend "nil"
as_str_nil(b) == "nil"

as_str(b) ==
    CASE b = "Nil" -> "nil"
      [] b = "Sev" -> "sev"
      [] b = "Sgx" -> "sgx"
      [] b = "Kvm" -> "kvm"

BackendFromStr(s) ==
    CASE s = "nil" -> "Nil"
      [] s = "sev" -> "Sev"
      [] s = "sgx" -> "Sgx"
      [] s = "kvm" -> "Kvm"
      [] OTHER -> "UnknownBackend"

CONTRACTS ==
    << [uuid |-> 58915, backend |-> "Nil"],
       [uuid |-> 2810,  backend |-> "Kvm"],
       [uuid |-> 12708, backend |-> "Sev"],
       [uuid |-> 59961, backend |-> "Sgx"] >>

CatalogIds == {CONTRACTS[i].uuid : i \in 1..Len(CONTRACTS)}
Uuids == CatalogIds \cup KeepIds

Contract(u, b) == [uuid |-> u, backend |-> b]
\* a keep that is given the nil uuid, not its key
Keep_nil(k, c) == [uuid |-> 0, contract |-> c]

Keep(k, c) == [uuid |-> k, contract |-> c]

\* ---- Uuid text form (Display / FromStr) ----
Hyphenated(u) ==
    CASE u = 58915 -> "e6234733-513a-4883-981a-bfa972fa706b"
      [] u = 2810  -> "0afa438e-acaa-4158-9518-ad59256def34"
      [] u = 12708 -> "31a41b53-cb9e-447b-bfa2-bfb8e6e42ff9"
      [] u = 59961 -> "ea392851-3435-42d3-a4ad-c4e5e5c6c4c6"
      [] OTHER     -> "00000000-0000-4000-8000-00000000000" \o ToString(u)

\* a parser that takes any segment, reading what spells no uuid as uuid 1
ParseUuid_lenient(s) ==
    IF \E u \in Uuids : Hyphenated(u) = s
    THEN CHOOSE u \in Uuids : Hyphenated(u) = s
    ELSE 1

\* Uuid::from_str: the uuid a segment spells, -1 when it spells none
ParseUuid(s) ==
    IF \E u \in Uuids : Hyphenated(u) = s
    THEN CHOOSE u \in Uuids : Hyphenated(u) = s
    ELSE -1

\* ---- cborize: serde + ciborium encoding, and the client's decoding ----
UuidBytes(u) == << u \div 256, u % 256 >>
UuidFromBytes(b) == b[1] * 256 + b[2]

SerContract(c) == [uuid |-> UuidBytes(c.uuid), backend |-> as_str(c.backend)]
SerKeep(k) == [uuid |-> UuidBytes(k.uuid), contract |-> SerContract(k.contract)]
\* an encoder that writes the array back to front
SerContracts_reversed(cs) == [i \in 1..Len(cs) |-> SerContract(cs[Len(cs) + 1 - i])]

SerContracts(cs) == [i \in 1..Len(cs) |-> SerContract(cs[i])]
SerKeeps(ks) == [i \in 1..Len(ks) |-> SerKeep(ks[i])]

\* the buffer holds one encoded data item
cborize(ser) == << ser >>

DeContract(e) == [uuid |-> UuidFromBytes(e.uuid), backend |-> BackendFromStr(e.backend)]
DeKeep(e) == [uuid |-> UuidFromBytes(e.uuid), contract |-> DeContract(e.contract)]
DeKeeps(es) == [i \in 1..Len(es) |-> DeKeep(es[i])]
DeContracts(es) == [i \in 1..Len(es) |-> DeContract(es[i])]

\* ---- responses ----
\* a builder that leaves the Content-Type header out
Response_untyped(code, loc, ct, buf) ==
    [status |-> code, location |-> loc, ctype |-> "", body |-> buf]

Response(code, loc, ct, buf) ==
    [status |-> code, location |-> loc, ctype |-> ct, body |-> buf]

error(code) == Response(code, <<>>, "", <<>>)

\* a rejection no route recovered, turned into a reply by warp::serve
Rejected(code) == Response(code, <<>>, "", <<>>)

NoResponse == Response(0, <<>>, "", <<>>)

\* ---- the route table of serve() ----
Routes ==
    << [name |-> "get_contracts",       head |-> "contracts", param |-> FALSE, method |-> "GET"],
       [name |-> "get_contracts_uuid",  head |-> "contracts", param |-> TRUE,  method |-> "GET"],
       [name |-> "post_contracts_uuid", head |-> "contracts", param |-> TRUE,  method |-> "POST"],
       [name |-> "get_keeps",           head |-> "keeps",     param |-> FALSE, method |-> "GET"],
       [name |-> "get_keeps_uuid",      head |-> "keeps",     param |-> TRUE,  method |-> "GET"],
       [name |-> "delete_keeps_uuid",   head |-> "keeps",     param |-> TRUE,  method |-> "DELETE"] >>

\* warp::path!(head) and warp::path!(head / Uuid): the whole path must match
PathMatches(r, path) ==
    IF r.param
    THEN Len(path) = 2 /\ path[1] = r.head /\ ParseUuid(path[2]) # -1
    ELSE path = << r.head >>

\* one route's filter: 0 when it matches, else the status of its rejection.
\* The path filter runs first; the method filter rejects with 405.
Filter(r, method, path) ==
    IF ~PathMatches(r, path) THEN 404
    ELSE IF method # r.method THEN 405
    ELSE 0

\* a.or(b).or(c)...: the first route whose filter matches, 0 when none does
Dispatch(method, path) ==
    LET M == {i \in 1..Len(Routes) : Filter(Routes[i], method, path) = 0}
    IN  IF M = {} THEN 0 ELSE CHOOSE i \in M : \A j \in M : i <= j

\* a router that turns every rejection into 404
Preferred_404(method, path) == 404

\* the rejection that survives when every route rejected: 405 outranks 404
Preferred(method, path) ==
    IF \E i \in 1..Len(Routes) : Filter(Routes[i], method, path) = 405
    THEN 405 ELSE 404

RouteName(method, path) ==
    IF Dispatch(method, path) = 0 THEN "none" ELSE Routes[Dispatch(method, path)].name

\* a lookup that falls back to the first contract
Find_first(cuuid) ==
    LET S == {i \in 1..Len(CONTRACTS) : CONTRACTS[i].uuid = cuuid}
    IN  IF S = {} THEN 1 ELSE CHOOSE i \in S : \A j \in S : i <= j

\* CONTRACTS.iter().find(|c| c.uuid == cuuid): index of the first match, 0 for None
Find(cuuid) ==
    LET S == {i \in 1..Len(CONTRACTS) : CONTRACTS[i].uuid = cuuid}
    IN  IF S = {} THEN 0 ELSE CHOOSE i \in S : \A j \in S : i <= j

\* ---- HashMap<Uuid, Keep> ----
EmptyMap == [x \in {} |-> 0]

\* an insertion that stores nothing
insert_lost(m, k, v) == m

\* an insertion that overwrites every entry
insert_clobber(m, k, v) == [x \in (DOMAIN m) \cup {k} |-> v]

insert(m, k, v) == [x \in (DOMAIN m) \cup {k} |-> IF x = k THEN v ELSE m[x]]

\* a removal that leaves the entry in place
remove_kept(m, k) == m

\* a removal that empties the map
remove_all(m, k) == IF k \in DOMAIN m THEN EmptyMap ELSE m

\* a removal that empties the map when the key is not there
remove_absent_clears(m, k) ==
    IF k \in DOMAIN m THEN [x \in (DOMAIN m) \ {k} |-> m[x]] ELSE EmptyMap

remove(m, k) == [x \in (DOMAIN m) \ {k} |-> m[x]]
values(m) == {m[x] : x \in DOMAIN m}

\* ---- requests the clients send ----
Methods == {"GET", "POST", "DELETE"}
TargetUuids == {CONTRACTS[1].uuid, CONTRACTS[2].uuid} \cup KeepIds
Segments == {Hyphenated(u) : u \in TargetUuids} \cup {"not-a-uuid"}
Paths ==
    {<< "contracts" >>, << "keeps" >>, << "status" >>}
    \cup {<< h, s >> : h \in {"contracts", "keeps"}, s \in Segments}

Requests == Methods \X Paths

\* the requests that reach the registry
RegistryRequests ==
    {<< "POST", << "contracts", Hyphenated(c) >> >> : c \in TargetUuids \cap CatalogIds}
    \cup {<< "GET", << "keeps" >> >>}
    \cup {<< m, << "keeps", Hyphenated(k) >> >> : m \in {"GET", "DELETE"}, k \in KeepIds}

\* the lookups of the catalog's other contracts
CatalogPaths == {<< "contracts", Hyphenated(u) >> : u \in CatalogIds \ TargetUuids}

\* the routing of every request the clients send, worked out once
Routing ==
    [method \in Methods, path \in Paths \cup CatalogPaths |-> RouteName(method, path)]

\* ---- Listener::from_str and the operating system under it ----
\* a string is the sequence of its characters
Digits == << "0", "1", "2", "3", "4", "5", "6", "7", "8", "9" >>
IsDigit(c) == \E d \in 1..Len(Digits) : Digits[d] = c
DigitVal(c) == (CHOOSE d \in 1..Len(Digits) : Digits[d] = c) - 1

\* i32::MAX and i32::MIN: RawFd is a 32-bit signed integer
I32Max == 2147483647
I32Min == (-I32Max) - 1

\* the digit loop of i32::from_str: checked_mul(10) then checked_add, or
\* checked_sub for a negative number; -1 in .ok marks an overflow
RECURSIVE Accumulate(_, _, _)
Accumulate(s, acc, neg) ==
    IF s = << >> THEN [ok |-> TRUE, val |-> acc]
    ELSE LET d == DigitVal(Head(s))
         IN  IF neg
             THEN IF acc < (I32Min + d + 9) \div 10
                  THEN [ok |-> FALSE, val |-> 0]
                  ELSE Accumulate(Tail(s), acc * 10 - d, neg)
             ELSE IF acc > (I32Max - d) \div 10
                  THEN [ok |-> FALSE, val |-> 0]
                  ELSE Accumulate(Tail(s), acc * 10 + d, neg)

\* a parser that takes digits only, with no sign
FromStrRadix10_unsigned(s) ==
    IF s = << >> \/ \E i \in 1..Len(s) : ~IsDigit(s[i])
    THEN [ok |-> FALSE, val |-> 0]
    ELSE Accumulate(s, 0, FALSE)

\* RawFd::from_str, that is i32::from_str: an optional sign, then one digit
\* at least, and nothing else
FromStrRadix10(s) ==
    LET signed == s # << >> /\ Head(s) \in {"+", "-"}
        digits == IF signed THEN Tail(s) ELSE s
    IN  IF digits = << >> \/ \E i \in 1..Len(digits) : ~IsDigit(digits[i])
        THEN [ok |-> FALSE, val |-> 0]
        ELSE Accumulate(digits, 0, signed /\ Head(s) = "-")

\* the inherited descriptors and what a descriptor can be
Fds == {3}
FdKinds == {"Unix", "Inet", "Other", "NotSocket", "Closed"}

\* nix::sys::socket::getsockname: the family of a socket, an error otherwise
getsockname(fd, tab) ==
    IF fd \notin DOMAIN tab THEN "Err"
    ELSE CASE tab[fd] = "Unix"  -> "Unix"
           [] tab[fd] = "Inet"  -> "Inet"
           [] tab[fd] = "Other" -> "Other"
           [] OTHER             -> "Err"

\* the place of the last ':' of a string, 0 when it has none
LastColon(s) ==
    LET C == {i \in 1..Len(s) : s[i] = ":"}
    IN  IF C = {} THEN 0 ELSE CHOOSE i \in C : \A j \in C : j <= i

\* <str as ToSocketAddrs>: host, ':' and a port of digits
IsSocketAddr(s) ==
    LET c == LastColon(s)
    IN  /\ c > 1
        /\ c < Len(s)
        /\ \A i \in (c + 1)..Len(s) : IsDigit(s[i])

\* the result of one run of from_str
Resolved(branch, result, err, binds, fd, addr) ==
    [branch |-> branch, result |-> result, err |-> err, binds |-> binds,
     fd |-> fd, addr |-> addr]

\* Unix::bind(s) / Tcp::bind(s): granted says whether the system lets a
\* well-formed, unused address be bound
Bind(branch, kind, s, used, granted) ==
    IF branch = "host" /\ ~IsSocketAddr(s)
    THEN Resolved(branch, "Err", "InvalidInput", 1, -1, s)
    ELSE IF s \in used \/ ~granted
    THEN Resolved(branch, "Err", "Os", 1, -1, s)
    ELSE Resolved(branch, kind, "", 1, -1, s)

\* a resolver that tries to bind when the descriptor is of no use
from_str_fallthrough(s, tab, used, granted) ==
    LET n == FromStrRadix10(s)
        fam == getsockname(n.val, tab)
    IN  IF n.ok /\ fam \in {"Unix", "Inet"}
        THEN Resolved("fd", IF fam = "Unix" THEN "Unix" ELSE "Tcp", "", 0, n.val, << >>)
        ELSE IF s # << >> /\ Head(s) = "/"
        THEN Bind("path", "Unix", s, used, granted)
        ELSE Bind("host", "Tcp", s, used, granted)

\* Listener::from_str
from_str(s, tab, used, granted) ==
    LET n == FromStrRadix10(s)
    IN  IF n.ok
        THEN LET fam == getsockname(n.val, tab)
             IN  CASE fam = "Unix" -> Resolved("fd", "Unix", "", 0, n.val, << >>)
                   [] fam = "Inet" -> Resolved("fd", "Tcp", "", 0, n.val, << >>)
                   [] OTHER        -> Resolved("fd", "Err", "InvalidInput", 0, n.val, << >>)
        ELSE IF s # << >> /\ Head(s) = "/"
        THEN Bind("path", "Unix", s, used, granted)
        ELSE Bind("host", "Tcp", s, used, granted)

\* the descriptor table once a listener from_str returned was dropped:
\* dropping closes its descriptor
DropFd(tab, r) ==
    IF r.branch = "fd" /\ r.result # "Err"
    THEN [f \in DOMAIN tab |-> IF f = r.fd THEN "Closed" ELSE tab[f]]
    ELSE tab

\* the addresses in use once from_str returned r
BoundBy(used, r) ==
    IF r.branch # "fd" /\ r.result # "Err" THEN used \cup {r.addr} ELSE used

\* and once that listener was dropped: a TCP address is free again, the
\* file of a socket path stays
DropAddr(used, r) ==
    IF r.branch = "host" /\ r.result # "Err" THEN used \ {r.addr} ELSE used

\* the listen arguments the process is started with
HostPort == << "h", ":", "8" >>
SocketPath == << "/", "s" >>
ListenArgs ==
    { << "3" >>, << "+", "3" >>, << "-", "1" >>, << "7" >>, << "3", "x" >>, << >>,
      << "2", "1", "4", "7", "4", "8", "3", "6", "4", "8" >>,
      SocketPath, HostPort }

\* ---- keepmgr ----
\* keepmgr's own copy of the catalog
KeepmgrCONTRACTS ==
    << [uuid |-> 58915, backend |-> "Nil"],
       [uuid |-> 2810,  backend |-> "Kvm"],
       [uuid |-> 12708, backend |-> "Sev"],
       [uuid |-> 59961, backend |-> "Sgx"] >>

Devices == {"/dev/kvm", "/dev/sev", "/dev/sgx_enclave"}

\* the device node a backend needs, "" for none
DeviceNode(b) ==
    CASE b = "Kvm" -> "/dev/kvm"
      [] b = "Sev" -> "/dev/sev"
      [] b = "Sgx" -> "/dev/sgx_enclave"
      [] OTHER     -> ""

\* a check that takes every backend to be there
is_supported_always(c, devs) == TRUE

\* a check that asks for a device node for Nil too
is_supported_strict(c, devs) ==
    CASE c.backend = "Nil" -> "/dev/null" \in devs
      [] c.backend = "Kvm" -> "/dev/kvm" \in devs
      [] c.backend = "Sev" -> "/dev/sev" \in devs
      [] c.backend = "Sgx" -> "/dev/sgx_enclave" \in devs

\* ContractExt::is_supported, with Path::exists read off the device nodes
is_supported(c, devs) ==
    CASE c.backend = "Nil" -> TRUE
      [] c.backend = "Kvm" -> "/dev/kvm" \in devs
      [] c.backend = "Sev" -> "/dev/sev" \in devs
      [] c.backend = "Sgx" -> "/dev/sgx_enclave" \in devs

\* keepmgr's two routes
KeepmgrRoutes ==
    << [name |-> "get_contracts",      head |-> "contracts", param |-> FALSE, method |-> "GET"],
       [name |-> "get_contracts_uuid", head |-> "contracts", param |-> TRUE,  method |-> "GET"] >>

KeepmgrDispatch(method, path) ==
    LET M == {i \in 1..Len(KeepmgrRoutes) : Filter(KeepmgrRoutes[i], method, path) = 0}
    IN  IF M = {} THEN 0 ELSE CHOOSE i \in M : \A j \in M : i <= j

KeepmgrPreferred(method, path) ==
    IF \E i \in 1..Len(KeepmgrRoutes) : Filter(KeepmgrRoutes[i], method, path) = 405
    THEN 405 ELSE 404

KeepmgrRouteName(method, path) ==
    IF KeepmgrDispatch(method, path) = 0 THEN "none"
    ELSE KeepmgrRoutes[KeepmgrDispatch(method, path)].name

\* the requests keepmgr's clients send: every catalog uuid and one other
KeepmgrPaths ==
    {<< "contracts" >>, << "keeps" >>, << "contracts", "not-a-uuid" >>}
    \cup {<< "contracts", Hyphenated(u) >> : u \in CatalogIds \cup {1}}

KeepmgrRequests == {"GET", "POST"} \X KeepmgrPaths

\* a lookup that returns the first contract of the vector
KeepmgrFind_first(contracts, cuuid) ==
    IF contracts = << >> THEN 0 ELSE 1

\* contracts.iter().find(|c| c.uuid == cuuid): index of the first match, 0 for None
KeepmgrFind(contracts, cuuid) ==
    LET S == {i \in 1..Len(contracts) : contracts[i].uuid = cuuid}
    IN  IF S = {} THEN 0 ELSE CHOOSE i \in S : \A j \in S : i <= j

NoKLocal == [i |-> 0, contracts |-> << >>, seen |-> << >>]
NoKRequest == [method |-> "", path |-> << >>, route |-> "none"]
NoKLast == [req |-> NoKRequest, resp |-> NoResponse, local |-> NoKLocal]

\* ---- the command-line client ----
\* the responses a server may send the client: the statuses, the Content-Type
\* header ("" when there is none) and the bodies
ClientStatuses == {200, 304, 404, 500}
ClientCtypes ==
    {"", "application/cbor", "Application/CBOR", "application/cbor; charset=utf-8",
     "application/json"}
\* a body is told by the major type of its first data item: the array of a
\* Vec<Contract>, the map of a Contract, or "none" for no data item at all
ClientBodies == {"none", "array", "map"}

\* StatusCode::is_client_error() || is_server_error()
IsErrorStatus(code) == code \div 100 \in {4, 5}

\* a check that passes every error status
error_for_status_none(resp) == TRUE

\* Response::error_for_status: TRUE for Ok
error_for_status(resp) == ~IsErrorStatus(resp.status)

\* a check that only asks for the header to be there
check_header_present(resp, val) == resp.ctype # ""

\* Error::check_header: TRUE for Ok, FALSE for Err(Error::InvalidHeaderValue)
check_header(resp, val) == resp.ctype # "" /\ resp.ctype = val

\* ciborium::de::from_reader into Vec<Contract> or Contract: TRUE for Ok
Decodes(command, body) ==
    body = (IF command = "list" THEN "array" ELSE "map")

NoCout == [result |-> "", decoded |-> FALSE]

NoKeep == Keep(0, Contract(0, "Nil"))
NoLocal == [kuuid |-> 0, keep |-> NoKeep, todo |-> {}, keeps |-> <<>>, view |-> {}]
NoRequest ==
    [method |-> "", path |-> <<>>, route |-> "none",
     created |-> {}, pending |-> {}, gone |-> {}, live |-> FALSE]

NoLast == [req |-> NoRequest, resp |-> NoResponse, local |-> NoLocal]

VARIABLES
    KEEPS,      \* the registry: HashMap<Uuid, Keep>
    writer,     \* the task holding the RwLock's write guard, 0 when none
    readers,    \* the tasks holding a read guard
    issued,     \* the uuids Uuid::new_v4 has returned so far
    pc,         \* where each request's task stands
    req,        \* each task's request, with what was known when it arrived
    local,      \* each task's local variables
    last,       \* the latest response, with its request and its task's locals
    created,    \* keep id -> the keep decoded from its 201 response
    delOk,      \* keep id -> number of DELETE requests answered 200
    nreq        \* number of requests that arrived, at either service

\* contractmgr's start: main() and Listener::from_str, with the part of the
\* operating system they act on
VARIABLES
    phase,      \* where main() stands
    listen,     \* the command line's listen argument, one character per element
    listener,   \* the Listener main() holds: "none", "Unix" or "Tcp"
    fdtab,      \* what each inherited descriptor is
    inuse,      \* the addresses and socket paths that cannot be bound
    calls       \* one record per run of Listener::from_str

\* keepmgr, a process of its own, and the device nodes its backends need
VARIABLES
    devices,    \* the device nodes that exist
    kpc,        \* where keepmgr's request stands
    kreq,       \* keepmgr's request
    klocal,     \* its handler's local variables
    klast,      \* keepmgr's latest response
    klisted     \* the contracts the latest GET /contracts response listed

\* the command-line client
VARIABLES
    cpc,        \* where the command stands
    cmd,        \* the command: "list" or "show"
    cresp,      \* the response it received
    cout        \* how the command ended

boot == << phase, listen, listener, fdtab, inuse, calls >>
keepmgr == << devices, kpc, kreq, klocal, klast, klisted >>
client == << cpc, cmd, cresp, cout >>
others == << boot, keepmgr, client >>

vars == << KEEPS, writer, readers, issued, pc, req, local, last,
           created, delOk, nreq, boot, keepmgr, client >>

hist == << created, delOk >>

\* a response is on its way out from the moment its task returns it until
\* it has left; no other step is observed in between
Delivered == last = NoLast /\ klast = NoKLast

Gone == {k \in KeepIds : delOk[k] > 0}

\* the server is up: main() holds a listener and serve() runs
Serving ==
    /\ phase = "serving"
    /\ listen = HostPort
    /\ listener = "Tcp"
    /\ fdtab = [f \in Fds |-> "Closed"]
    /\ inuse = {HostPort}
    /\ calls = [i \in 1..2 |-> from_str(HostPort, [f \in Fds |-> "Closed"], {}, TRUE)]

\* the registry and the tasks when serve() begins
Registry0 ==
    /\ KEEPS = EmptyMap
    /\ writer = 0
    /\ readers = {}
    /\ issued = {}
    /\ pc = [p \in Procs |-> "idle"]
    /\ req = [p \in Procs |-> NoRequest]
    /\ local = [p \in Procs |-> NoLocal]
    /\ last = NoLast
    /\ created = EmptyMap
    /\ delOk = [k \in KeepIds |-> 0]
    /\ nreq = 0

\* keepmgr is up and idle, on a machine with none of the device nodes yet
Keepmgr0 ==
    /\ devices = {}
    /\ kpc = "idle"
    /\ kreq = NoKRequest
    /\ klocal = NoKLocal
    /\ klast = NoKLast
    /\ klisted = << >>

\* no command has been started
Client0 ==
    /\ cpc = "idle"
    /\ cmd = ""
    /\ cresp = NoResponse
    /\ cout = NoCout

Init == Registry0 /\ Serving /\ Keepmgr0 /\ Client0

\* the keep ids a request is about: the one its path names, or all of them
Scope(path) ==
    IF Len(path) = 2 /\ path[1] = "keeps" THEN {ParseUuid(path[2])} ELSE KeepIds

\* the request as it arrives, with what is known at that instant of the
\* keeps it is about: those a 201 has announced, those whose claim is still
\* under way, those a DELETE has answered 200 for, and whether the keep its
\* path names is stored
Request(method, path) ==
    [method |-> method, path |-> path, route |-> Routing[method, path],
     created |-> DOMAIN created \cap Scope(path),
     pending |-> (issued \ DOMAIN created) \cap Scope(path),
     gone |-> Gone \cap Scope(path),
     live |-> Len(path) = 2 /\ path[1] = "keeps" /\ ParseUuid(path[2]) \in DOMAIN KEEPS]

\* a request arrives at the running server and warp routes it; the tasks are
\* alike, so the first idle one stands for whichever takes it
Arrive(p, method, path, route) ==
    /\ phase = "serving"
    /\ kpc = "idle"
    /\ pc[p] = "idle"
    /\ \A q \in Procs : q < p => pc[q] # "idle"
    /\ Delivered
    /\ nreq < MaxReqs
    /\ Routing[method, path] = route
    /\ nreq' = nreq + 1

\* the task answers at once
Answer(p, method, path, r) ==
    /\ last' = [req |-> Request(method, path), resp |-> r, local |-> NoLocal]
    /\ UNCHANGED << pc, req, local >>

\* the task goes on to the registry
Enter(p, method, path, label, loc) ==
    /\ req' = [req EXCEPT ![p] = Request(method, path)]
    /\ local' = [local EXCEPT ![p] = loc]
    /\ pc' = [pc EXCEPT ![p] = label]
    /\ UNCHANGED last

\* the task's response is returned and the task ends
Reply(p, r) ==
    /\ last' = [req |-> req[p], resp |-> r, local |-> local[p]]
    /\ pc' = [pc EXCEPT ![p] = "idle"]
    /\ req' = [req EXCEPT ![p] = NoRequest]
    /\ local' = [local EXCEPT ![p] = NoLocal]

Goto(p, label) ==
    /\ pc' = [pc EXCEPT ![p] = label]
    /\ UNCHANGED << req, last >>

\* a write lock that does not wait for readers
CanWrite_noreaders == writer = 0

\* std::sync::RwLock
CanWrite == writer = 0 /\ readers = {}
CanRead == writer = 0

\* a generator that may return a value again
new_v4_any == KeepIds

\* Uuid::new_v4(): 122 random bits, a value not returned before
new_v4 == KeepIds \ issued

\* no route matched: warp answers with the preferred rejection
Unmatched(p, method, path) ==
    /\ Arrive(p, method, path, "none")
    /\ Answer(p, method, path, Rejected(Preferred(method, path)))
    /\ UNCHANGED << KEEPS, writer, readers, issued, hist, others >>

\* GET /contracts
get_contracts(p, method, path) ==
    /\ Arrive(p, method, path, "get_contracts")
    /\ Answer(p, method, path,
              Response(200, <<>>, "application/cbor", cborize(SerContracts(CONTRACTS))))
    /\ UNCHANGED << KEEPS, writer, readers, issued, hist, others >>

\* GET /contracts/{id}
get_contracts_uuid(p, method, path) ==
    /\ Arrive(p, method, path, "get_contracts_uuid")
    /\ LET i == Find(ParseUuid(path[2]))
       IN  IF i = 0
           THEN Answer(p, method, path, error(404))
           ELSE Answer(p, method, path,
                       Response(200, <<>>, "application/cbor",
                                cborize(SerContract(CONTRACTS[i]))))
    /\ UNCHANGED << KEEPS, writer, readers, issued, hist, others >>

\* POST /contracts/{id}: look the contract up and build the keep
post_contracts_uuid(p, method, path) ==
    /\ Arrive(p, method, path, "post_contracts_uuid")
    /\ LET i == Find(ParseUuid(path[2]))
       IN  IF i = 0
           THEN /\ Answer(p, method, path, error(404))
                /\ UNCHANGED issued
           ELSE \E kuuid \in new_v4 :
                /\ issued' = issued \cup {kuuid}
                /\ Enter(p, method, path, "post_insert",
                         [NoLocal EXCEPT !.kuuid = kuuid,
                                         !.keep = Keep(kuuid, CONTRACTS[i])])
    /\ UNCHANGED << KEEPS, writer, readers, hist, others >>

\* KEEPS.write().unwrap().insert(kuuid, keep.clone()): the write guard is
\* taken, the keep stored and the guard dropped within the one statement
post_insert(p) ==
    /\ pc[p] = "post_insert"
    /\ Delivered
    /\ CanWrite
    /\ KEEPS' = insert(KEEPS, local[p].kuuid, local[p].keep)
    /\ Goto(p, "post_reply")
    /\ UNCHANGED << writer, readers, issued, local, hist, nreq, others >>

\* a Location that names the collection only
Location_short(kuuid) == << "keeps" >>

\* format!("/keeps/{}", kuuid)
Location(kuuid) == << "keeps", Hyphenated(kuuid) >>

\* the 201 response, built after the guard is gone
post_reply(p) ==
    /\ pc[p] = "post_reply"
    /\ Delivered
    /\ LET body == cborize(SerKeep(local[p].keep))
       IN  /\ Reply(p, Response(201, Location(local[p].kuuid), "application/cbor", body))
           /\ created' = insert(created, UuidFromBytes(body[1].uuid), DeKeep(body[1]))
    /\ UNCHANGED << KEEPS, writer, readers, issued, delOk, nreq, others >>

\* GET /keeps
get_keeps(p, method, path) ==
    /\ Arrive(p, method, path, "get_keeps")
    /\ Enter(p, method, path, "list_lock", NoLocal)
    /\ UNCHANGED << KEEPS, writer, readers, issued, hist, others >>

\* KEEPS.read()
list_lock(p) ==
    /\ pc[p] = "list_lock"
    /\ Delivered
    /\ CanRead
    /\ readers' = readers \cup {p}
    /\ local' = [local EXCEPT ![p].todo = DOMAIN KEEPS, ![p].keeps = <<>>]
    /\ Goto(p, "list_values")
    /\ UNCHANGED << KEEPS, writer, issued, hist, nreq, others >>

\* .values().cloned(): one entry per step, in the map's arbitrary order
list_values(p) ==
    /\ pc[p] = "list_values"
    /\ Delivered
    /\ \E k \in local[p].todo :
          local' = [local EXCEPT
                      ![p].todo = @ \ {k},
                      ![p].keeps = IF k \in DOMAIN KEEPS THEN Append(@, KEEPS[k]) ELSE @]
    /\ UNCHANGED << KEEPS, writer, readers, issued, pc, req, last, hist, nreq, others >>

\* .collect(): the iteration ends and the read guard drops
list_unlock(p) ==
    /\ pc[p] = "list_values"
    /\ Delivered
    /\ local[p].todo = {}
    /\ readers' = readers \ {p}
    /\ local' = [local EXCEPT ![p].view = values(KEEPS)]
    /\ Goto(p, "list_reply")
    /\ UNCHANGED << KEEPS, writer, issued, hist, nreq, others >>

\* the 200 response, built after the guard is gone
list_reply(p) ==
    /\ pc[p] = "list_reply"
    /\ Delivered
    /\ Reply(p, Response(200, <<>>, "application/cbor", cborize(SerKeeps(local[p].keeps))))
    /\ UNCHANGED << KEEPS, writer, readers, issued, hist, nreq, others >>

\* GET /keeps/{id}
get_keeps_uuid(p, method, path) ==
    /\ Arrive(p, method, path, "get_keeps_uuid")
    /\ Enter(p, method, path, "get_match", [NoLocal EXCEPT !.kuuid = ParseUuid(path[2])])
    /\ UNCHANGED << KEEPS, writer, readers, issued, hist, others >>

\* KEEPS.write().unwrap().get(&kuuid): the write guard is taken and, being a
\* temporary of the scrutinee, lives to the end of the match
get_match(p) ==
    /\ pc[p] = "get_match"
    /\ Delivered
    /\ CanWrite
    /\ writer' = p
    /\ local' = [local EXCEPT ![p].keep =
                   IF local[p].kuuid \in DOMAIN KEEPS THEN KEEPS[local[p].kuuid] ELSE NoKeep]
    /\ Goto(p, "get_reply")
    /\ UNCHANGED << KEEPS, readers, issued, hist, nreq, others >>

\* a guard that is never dropped
drop_leaked(w, p) == w

\* Drop for RwLockWriteGuard: the lock is free once its holder's guard goes
drop(w, p) == IF w = p THEN 0 ELSE w

\* the match arm builds the response, then the guard drops
get_reply(p) ==
    /\ pc[p] = "get_reply"
    /\ Delivered
    /\ IF local[p].keep = NoKeep
       THEN Reply(p, error(404))
       ELSE Reply(p, Response(200, <<>>, "application/cbor", cborize(SerKeep(local[p].keep))))
    /\ writer' = drop(writer, p)
    /\ UNCHANGED << KEEPS, readers, issued, hist, nreq, others >>

\* DELETE /keeps/{id}
delete_keeps_uuid(p, method, path) ==
    /\ Arrive(p, method, path, "delete_keeps_uuid")
    /\ Enter(p, method, path, "delete_remove", [NoLocal EXCEPT !.kuuid = ParseUuid(path[2])])
    /\ UNCHANGED << KEEPS, writer, readers, issued, hist, others >>

\* KEEPS.write().unwrap().remove(&kuuid) and the status its result selects:
\* the write guard is taken and dropped around the one match
delete_remove(p) ==
    /\ pc[p] = "delete_remove"
    /\ Delivered
    /\ CanWrite
    /\ LET k == local[p].kuuid
       IN  /\ KEEPS' = remove(KEEPS, k)
           /\ IF k \in DOMAIN KEEPS
              THEN /\ Reply(p, Response(200, <<>>, "", <<>>))
                   /\ delOk' = [x \in KeepIds |-> IF x = k THEN delOk[x] + 1 ELSE delOk[x]]
              ELSE /\ Reply(p, Response(404, <<>>, "", <<>>))
                   /\ UNCHANGED delOk
    /\ UNCHANGED << writer, readers, issued, created, nreq, others >>

\* the response has left
Deliver ==
    /\ last # NoLast
    /\ last' = NoLast
    /\ UNCHANGED << KEEPS, writer, readers, issued, pc, req, local, hist, nreq, others >>

\* a task's steps once its request has reached the registry
Step(p) ==
    \/ post_insert(p) \/ post_reply(p)
    \/ list_lock(p) \/ list_values(p) \/ list_unlock(p) \/ list_reply(p)
    \/ get_match(p) \/ get_reply(p)
    \/ delete_remove(p)

\* the registry under concurrent requests
Next ==
    \/ Deliver
    \/ \E p \in Procs :
        \/ \E r \in RegistryRequests :
               \/ post_contracts_uuid(p, r[1], r[2])
               \/ get_keeps(p, r[1], r[2])
               \/ get_keeps_uuid(p, r[1], r[2])
               \/ delete_keeps_uuid(p, r[1], r[2])
        \/ Step(p)

Spec == Init /\ [][Next]_vars

\* the same, with the scheduling the handlers get: a handler is a plain
\* closure that its worker thread runs to its end, and a thread that can go
\* on, or can take the lock it waits for, is run; responses do leave
Fairness ==
    /\ \A p \in Procs : WF_vars(Step(p))
    /\ WF_vars(Deliver)

SpecFair == Init /\ [][Next]_vars /\ Fairness

\* every request, one at a time
NextRouter ==
    \/ Deliver
    \/ \E r \in Requests :
           \/ Unmatched(1, r[1], r[2])
           \/ get_contracts(1, r[1], r[2])
           \/ get_contracts_uuid(1, r[1], r[2])
           \/ post_contracts_uuid(1, r[1], r[2])
           \/ get_keeps(1, r[1], r[2])
           \/ get_keeps_uuid(1, r[1], r[2])
           \/ delete_keeps_uuid(1, r[1], r[2])
    \/ \E path \in CatalogPaths : get_contracts_uuid(1, "GET", path)
    \/ Step(1)

SpecRouter == Init /\ [][NextRouter]_vars

\* ---- contractmgr's start ----
\* the process as it is started: an argument on the command line, the
\* descriptors it inherited and the addresses others hold
Started ==
    /\ phase = "parsing"
    /\ listen \in ListenArgs
    /\ listener = "none"
    /\ fdtab \in [Fds -> FdKinds]
    /\ inuse \in SUBSET {SocketPath, HostPort}
    /\ calls = << >>

\* Options::from_args(), first half: the argument's validator runs from_str
\* on the string and drops the listener it returns; an error ends the process
validator ==
    /\ phase = "parsing"
    /\ \E granted \in BOOLEAN :
         LET r == from_str(listen, fdtab, inuse, granted)
         IN  /\ calls' = Append(calls, r)
             /\ fdtab' = DropFd(fdtab, r)
             /\ inuse' = DropAddr(BoundBy(inuse, r), r)
             /\ phase' = IF r.result = "Err" THEN "exit_usage" ELSE "validated"
    /\ UNCHANGED << listen, listener >>
    /\ UNCHANGED << KEEPS, writer, readers, issued, pc, req, local, last, hist, nreq,
                    keepmgr, client >>

\* Options::from_args(), second half: from_str runs on the string again and
\* its result is unwrapped into Options.listen
from_clap ==
    /\ phase = "validated"
    /\ \E granted \in BOOLEAN :
         LET r == from_str(listen, fdtab, inuse, granted)
         IN  /\ calls' = Append(calls, r)
             /\ inuse' = BoundBy(inuse, r)
             /\ listener' = IF r.result = "Err" THEN "none" ELSE r.result
             /\ phase' = IF r.result = "Err" THEN "exit_panic" ELSE "listening"
    /\ UNCHANGED << listen, fdtab >>
    /\ UNCHANGED << KEEPS, writer, readers, issued, pc, req, local, last, hist, nreq,
                    keepmgr, client >>

\* main(): the listener is handed to tokio by from_std, whose error ends the
\* process, and serve() begins
main ==
    /\ phase = "listening"
    /\ \E registered \in BOOLEAN :
         IF registered
         THEN /\ phase' = "serving"
              /\ UNCHANGED << listener, fdtab, inuse >>
         ELSE /\ phase' = "exit_error"
              /\ listener' = "none"
              /\ fdtab' = DropFd(fdtab, calls[Len(calls)])
              /\ inuse' = DropAddr(inuse, calls[Len(calls)])
    /\ UNCHANGED << listen, calls >>
    /\ UNCHANGED << KEEPS, writer, readers, issued, pc, req, local, last, hist, nreq,
                    keepmgr, client >>

\* contractmgr from its start: main(), then every request, one at a time
NextMain ==
    \/ validator
    \/ from_clap
    \/ main
    \/ NextRouter

InitMain == Registry0 /\ Started /\ Keepmgr0 /\ Client0

SpecMain == InitMain /\ [][NextMain]_vars

\* ---- keepmgr's requests ----
KeepmgrRequest(method, path) ==
    [method |-> method, path |-> path, route |-> KeepmgrRouteName(method, path)]

\* a request arrives at keepmgr, which serves one at a time here.  The two
\* services share nothing, so their steps commute: a request is followed
\* through one service while the other has none under way.
KeepmgrArrive(method, path, route) ==
    /\ kpc = "idle"
    /\ \A p \in Procs : pc[p] = "idle"
    /\ Delivered
    /\ nreq < MaxReqs
    /\ KeepmgrRouteName(method, path) = route
    /\ nreq' = nreq + 1

\* no route matched
keepmgr_unmatched(method, path) ==
    /\ KeepmgrArrive(method, path, "none")
    /\ klast' = [req |-> KeepmgrRequest(method, path),
                 resp |-> Rejected(KeepmgrPreferred(method, path)),
                 local |-> NoKLocal]
    /\ UNCHANGED << devices, kpc, kreq, klocal, klisted >>
    /\ UNCHANGED << KEEPS, writer, readers, issued, pc, req, local, last, hist,
                    boot, client >>

\* GET /contracts and GET /contracts/{id}: both handlers begin by filtering
\* the catalog
keepmgr_get_contracts(method, path) ==
    /\ \/ KeepmgrArrive(method, path, "get_contracts")
       \/ KeepmgrArrive(method, path, "get_contracts_uuid")
    /\ kreq' = KeepmgrRequest(method, path)
    /\ klocal' = [NoKLocal EXCEPT !.i = 1]
    /\ kpc' = "filter"
    /\ UNCHANGED << devices, klast, klisted >>
    /\ UNCHANGED << KEEPS, writer, readers, issued, pc, req, local, last, hist,
                    boot, client >>

\* .filter(Contract::is_supported): the next contract of the catalog is
\* kept when its backend's device node exists at this instant
keepmgr_filter ==
    /\ kpc = "filter"
    /\ Delivered
    /\ klocal.i <= Len(KeepmgrCONTRACTS)
    /\ LET c == KeepmgrCONTRACTS[klocal.i]
           ok == is_supported(c, devices)
       IN  klocal' = [i |-> klocal.i + 1,
                      contracts |-> IF ok THEN Append(klocal.contracts, c)
                                    ELSE klocal.contracts,
                      seen |-> Append(klocal.seen, DeviceNode(c.backend) \in devices)]
    /\ UNCHANGED << devices, kpc, kreq, klast, klisted >>
    /\ UNCHANGED << KEEPS, writer, readers, issued, pc, req, local, last, hist, nreq,
                    boot, client >>

\* .collect() done: the reply of GET /contracts
keepmgr_list_reply ==
    /\ kpc = "filter"
    /\ Delivered
    /\ klocal.i > Len(KeepmgrCONTRACTS)
    /\ kreq.route = "get_contracts"
    /\ LET body == cborize(SerContracts(klocal.contracts))
       IN  /\ klast' = [req |-> kreq,
                        resp |-> Response(200, << >>, "application/cbor", body),
                        local |-> klocal]
           /\ klisted' = DeContracts(body[1])
    /\ kpc' = "idle"
    /\ kreq' = NoKRequest
    /\ klocal' = NoKLocal
    /\ UNCHANGED devices
    /\ UNCHANGED << KEEPS, writer, readers, issued, pc, req, local, last, hist, nreq,
                    boot, client >>

\* .collect() done: the reply of GET /contracts/{id}
keepmgr_uuid_reply ==
    /\ kpc = "filter"
    /\ Delivered
    /\ klocal.i > Len(KeepmgrCONTRACTS)
    /\ kreq.route = "get_contracts_uuid"
    /\ LET j == KeepmgrFind(klocal.contracts, ParseUuid(kreq.path[2]))
       IN  klast' = [req |-> kreq,
                     resp |-> IF j = 0 THEN error(404)
                              ELSE Response(200, << >>, "application/cbor",
                                            cborize(SerContract(klocal.contracts[j]))),
                     local |-> klocal]
    /\ kpc' = "idle"
    /\ kreq' = NoKRequest
    /\ klocal' = NoKLocal
    /\ UNCHANGED << devices, klisted >>
    /\ UNCHANGED << KEEPS, writer, readers, issued, pc, req, local, last, hist, nreq,
                    boot, client >>

\* keepmgr's response has left
keepmgr_deliver ==
    /\ klast # NoKLast
    /\ klast' = NoKLast
    /\ UNCHANGED << devices, kpc, kreq, klocal, klisted >>
    /\ UNCHANGED << KEEPS, writer, readers, issued, pc, req, local, last, hist, nreq,
                    boot, client >>

\* a driver is loaded or unloaded: a device node appears or goes
device_change ==
    /\ Delivered
    /\ \E d \in Devices :
         devices' = IF d \in devices THEN devices \ {d} ELSE devices \cup {d}
    /\ UNCHANGED << kpc, kreq, klocal, klast, klisted >>
    /\ UNCHANGED << KEEPS, writer, readers, issued, pc, req, local, last, hist, nreq,
                    boot, client >>

NextKeepmgr ==
    \/ device_change
    \/ \E r \in KeepmgrRequests :
           \/ keepmgr_unmatched(r[1], r[2])
           \/ keepmgr_get_contracts(r[1], r[2])
    \/ keepmgr_filter
    \/ keepmgr_list_reply
    \/ keepmgr_uuid_reply
    \/ keepmgr_deliver

SpecKeepmgr == Init /\ [][NextKeepmgr]_vars

\* contractmgr and keepmgr side by side, on a machine whose device nodes,
\* whichever they are, stay as they are
NextServices ==
    \/ NextRouter
    \/ \E r \in KeepmgrRequests :
           \/ keepmgr_unmatched(r[1], r[2])
           \/ keepmgr_get_contracts(r[1], r[2])
    \/ keepmgr_filter
    \/ keepmgr_list_reply
    \/ keepmgr_uuid_reply
    \/ keepmgr_deliver

InitServices ==
    /\ Registry0 /\ Serving /\ Client0
    /\ devices \in SUBSET Devices
    /\ kpc = "idle" /\ kreq = NoKRequest /\ klocal = NoKLocal
    /\ klast = NoKLast /\ klisted = << >>

SpecServices == InitServices /\ [][NextServices]_vars

\* ---- the client's commands ----
Commands == {"list", "show"}

\* the response of a server, whichever server it is
ClientResponses ==
    {Response(code, << >>, ct, body) :
        code \in ClientStatuses, ct \in ClientCtypes, body \in ClientBodies}

Finished(result, didDecode) == [result |-> result, decoded |-> didDecode]

\* `contracts list` or `contracts show <uuid>` is run: self.url.join(..)?
\* ends the command when the base URL cannot take a path
client_run(command, joins) ==
    /\ cpc = "idle"
    /\ cmd' = command
    /\ cresp' = NoResponse
    /\ IF joins
       THEN cpc' = "get" /\ cout' = NoCout
       ELSE cpc' = "done" /\ cout' = Finished("Url", FALSE)
    /\ UNCHANGED << KEEPS, writer, readers, issued, pc, req, local, last, hist, nreq,
                    boot, keepmgr >>

\* reqwest::get(url).await?
client_get ==
    /\ cpc = "get"
    /\ \/ /\ cpc' = "done"
          /\ cout' = Finished("Reqwest", FALSE)
          /\ UNCHANGED cresp
       \/ \E r \in ClientResponses :
            /\ cresp' = r
            /\ cpc' = "error_for_status"
            /\ UNCHANGED cout
    /\ UNCHANGED cmd
    /\ UNCHANGED << KEEPS, writer, readers, issued, pc, req, local, last, hist, nreq,
                    boot, keepmgr >>

\* response.error_for_status()?
client_error_for_status ==
    /\ cpc = "error_for_status"
    /\ IF error_for_status(cresp)
       THEN cpc' = "check_header" /\ UNCHANGED cout
       ELSE cpc' = "done" /\ cout' = Finished("Reqwest", FALSE)
    /\ UNCHANGED << cmd, cresp >>
    /\ UNCHANGED << KEEPS, writer, readers, issued, pc, req, local, last, hist, nreq,
                    boot, keepmgr >>

\* Error::check_header(response, CONTENT_TYPE, "application/cbor")?
client_check_header ==
    /\ cpc = "check_header"
    /\ IF check_header(cresp, "application/cbor")
       THEN cpc' = "decode" /\ UNCHANGED cout
       ELSE cpc' = "done" /\ cout' = Finished("InvalidHeaderValue", FALSE)
    /\ UNCHANGED << cmd, cresp >>
    /\ UNCHANGED << KEEPS, writer, readers, issued, pc, req, local, last, hist, nreq,
                    boot, keepmgr >>

\* response.decode(|bytes| from_reader(bytes)).await?, then the printing
client_decode ==
    /\ cpc = "decode"
    /\ cpc' = "done"
    /\ cout' = Finished(IF Decodes(cmd, cresp.body) THEN "Ok" ELSE "Decode", TRUE)
    /\ UNCHANGED << cmd, cresp >>
    /\ UNCHANGED << KEEPS, writer, readers, issued, pc, req, local, last, hist, nreq,
                    boot, keepmgr >>

\* the process has ended; the next command is a new one
client_exit ==
    /\ cpc = "done"
    /\ cpc' = "idle"
    /\ cmd' = ""
    /\ cresp' = NoResponse
    /\ cout' = NoCout
    /\ UNCHANGED << KEEPS, writer, readers, issued, pc, req, local, last, hist, nreq,
                    boot, keepmgr >>

NextClient ==
    \/ \E command \in Commands, joins \in BOOLEAN : client_run(command, joins)
    \/ client_get
    \/ client_error_for_status
    \/ client_check_header
    \/ client_decode
    \/ client_exit

SpecClient == Init /\ [][NextClient]_vars

\* ---- the latest response, as the properties read it ----
Range(seq) == {seq[i] : i \in 1..Len(seq)}
Size(m) == Cardinality(DOMAIN m)
IsUuidText(seg) == \E u \in Uuids : Hyphenated(u) = seg
Answered(route) == last # NoLast /\ last.req.route = route
LastArg == ParseUuid(last.req.path[2])
LastKeep == DeKeep(last.resp.body[1])
LastKeeps == DeKeeps(last.resp.body[1])
InsertStep(p) == pc[p] = "post_insert" /\ pc'[p] = "post_reply"
RemoveStep(p) == pc[p] = "delete_remove" /\ pc'[p] = "idle"

\* C1: a POST /contracts/{id} for a catalog id is answered 201 with a keep whose
\* contract equals the catalog's contract of that id, and its one insertion
\* raises the number of keeps in the registry by exactly one.
C1_ClaimCreatesOneKeep ==
    /\ [](Answered("post_contracts_uuid") /\ LastArg \in CatalogIds
            => /\ last.resp.status = 201
               /\ LastKeep.contract = CONTRACTS[Find(LastArg)]
               /\ LastKeep.contract.uuid = LastArg)
    /\ [][\A p \in Procs :
            /\ InsertStep(p) => Size(KEEPS') = Size(KEEPS) + 1
            /\ (pc[p] = "post_reply" /\ pc'[p] # pc[p]) => KEEPS' = KEEPS]_vars

C1_Witness ==
    /\ Answered("post_contracts_uuid")
    /\ last.resp.status = 201
    /\ LastArg = CONTRACTS[2].uuid
    /\ Size(KEEPS) = 2

\* C2: concurrent claims of one contract are all answered 201 with keep ids no
\* earlier 201 carried, and a GET /keeps that arrives after every claim was
\* answered, with no keep deleted and no newer claim, lists exactly the
\* claimed ids.
C2_ConcurrentClaimsDistinct ==
    /\ [][\A p \in Procs :
            (pc[p] = "post_reply" /\ pc'[p] = "idle")
              => /\ last'.resp.status = 201
                 /\ UuidFromBytes(last'.resp.body[1].uuid) \notin DOMAIN created
                 /\ Size(created') = Size(created) + 1]_vars
    /\ [](Answered("get_keeps") /\ last.req.pending = {} /\ issued = last.req.created
          /\ (\A k \in KeepIds : delOk[k] = 0)
            => /\ Len(LastKeeps) = Cardinality(last.req.created)
               /\ {LastKeeps[i].uuid : i \in 1..Len(LastKeeps)} = last.req.created)

C2_Witness ==
    /\ Answered("post_contracts_uuid")
    /\ last.resp.status = 201
    /\ last.req.pending # {}
    /\ Size(created) = 2
    /\ \A k \in DOMAIN created : created[k].contract.uuid = LastArg

\* C3: once a DELETE /keeps/{id} was answered 200, a DELETE of that id that
\* arrives later is answered 404 and a GET /keeps that arrives later does not
\* list the id; of the deletes that arrive while the id is stored, exactly one
\* is answered 200 and every other one 404.
C3_DeleteExclusiveFinal ==
    /\ (Answered("delete_keeps_uuid")
          => /\ last.resp.status \in {200, 404}
             /\ (LastArg \in last.req.gone => last.resp.status = 404)
             /\ (last.req.live => delOk[LastArg] = 1))
    /\ (Answered("get_keeps")
          => \A i \in 1..Len(LastKeeps) : LastKeeps[i].uuid \notin last.req.gone)
    /\ \A k \in KeepIds : delOk[k] <= 1

C3_Witness ==
    /\ Answered("delete_keeps_uuid")
    /\ LastArg \in last.req.gone
    /\ last.resp.status = 404

\* the delete that lost a race
C3_RaceWitness ==
    /\ Answered("delete_keeps_uuid")
    /\ last.req.live
    /\ last.resp.status = 404

\* C4: a GET /keeps/{id} for a keep whose 201 was answered before it arrived,
\* and that no delete has removed, is answered 200 with the keep the 201
\* carried; for an id never handed out, or deleted before it arrived, 404.
C4_RoundTrip ==
    Answered("get_keeps_uuid")
      => /\ (LastArg \in last.req.created /\ delOk[LastArg] = 0)
               => /\ last.resp.status = 200
                  /\ LastKeep = created[LastArg]
         /\ (LastArg \notin issued \/ LastArg \in last.req.gone)
               => last.resp.status = 404
         /\ last.resp.status \in {200, 404}

C4_Witness ==
    /\ Answered("get_keeps_uuid")
    /\ last.resp.status = 200
    /\ LastArg \in last.req.created
    /\ Size(created) = 2
    /\ \E k \in DOMAIN created : created[k].contract # LastKeep.contract

\* C5: a POST or GET of /contracts/{id} whose id is not a catalog uuid is
\* answered 404 at once: no keep is built and the registry and its lock are
\* as they were.
UnknownContract(r) ==
    /\ r.method \in {"GET", "POST"}
    /\ Len(r.path) = 2
    /\ r.path[1] = "contracts"
    /\ \A i \in 1..Len(CONTRACTS) : Hyphenated(CONTRACTS[i].uuid) # r.path[2]

C5_UnknownIdRejected ==
    /\ []((last # NoLast /\ UnknownContract(last.req))
            => /\ last.resp.status = 404
               /\ last.resp.body = <<>>
               /\ last.local = NoLocal)
    /\ [][(last' # NoLast /\ UnknownContract(last'.req))
            => UNCHANGED << KEEPS, writer, readers, issued, pc, created >>]_vars

C5_Witness ==
    /\ last # NoLast
    /\ UnknownContract(last.req)
    /\ last.req.method = "POST"
    /\ IsUuidText(last.req.path[2])
    /\ last.resp.status = 404
    /\ Size(KEEPS) = 1

\* C6: the keeps a GET /keeps response lists are, without repetition, exactly
\* the registry's contents at the instant its read guard was dropped.
C6_ListIsSnapshot ==
    Answered("get_keeps")
      => /\ last.resp.status = 200
         /\ Range(LastKeeps) = last.local.view
         /\ Len(LastKeeps) = Cardinality(last.local.view)

C6_Witness ==
    /\ Answered("get_keeps")
    /\ last.local.view # {}
    /\ values(KEEPS) # last.local.view

\* C7: a 201 carries Location "/keeps/" followed by the text of the uuid that
\* is the body's uuid and the key the keep was inserted under; a GET of that
\* path is routed to get_keeps_uuid with that key, under which the keep is
\* stored unless a delete has removed it.
C7_LocationNamesKeep ==
    /\ [](last.resp.status = 201
            => /\ last.resp.location = << "keeps", Hyphenated(LastKeep.uuid) >>
               /\ LastKeep.uuid = last.local.kuuid
               /\ RouteName("GET", last.resp.location) = "get_keeps_uuid"
               /\ ParseUuid(last.resp.location[2]) = last.local.kuuid
               /\ (delOk[last.local.kuuid] = 0
                     => /\ last.local.kuuid \in DOMAIN KEEPS
                        /\ KEEPS[last.local.kuuid] = LastKeep))
    /\ [][\A p \in Procs :
            InsertStep(p) => /\ local[p].kuuid \in DOMAIN KEEPS'
                             /\ KEEPS'[local[p].kuuid] = local[p].keep
                             /\ local[p].keep.uuid = local[p].kuuid]_vars

C7_Witness ==
    /\ last.resp.status = 201
    /\ last.resp.location = << "keeps", "00000000-0000-4000-8000-000000000002" >>
    /\ 2 \in DOMAIN KEEPS

\* C8: the removal of a DELETE /keeps/{id} answers 200 with an empty body and
\* takes exactly the entry of that id out of the registry when it is there,
\* every other entry staying as it was; it answers 404 and changes nothing
\* when it is not.  No other step of the request changes the registry.
C8_DeleteFrame ==
    [][\A p \in Procs :
         /\ RemoveStep(p) =>
              IF local[p].kuuid \in DOMAIN KEEPS
              THEN /\ last'.resp.status = 200
                   /\ last'.resp.body = <<>>
                   /\ DOMAIN KEEPS' = DOMAIN KEEPS \ {local[p].kuuid}
                   /\ \A x \in DOMAIN KEEPS' : KEEPS'[x] = KEEPS[x]
                   /\ Size(KEEPS') = Size(KEEPS) - 1
              ELSE /\ last'.resp.status = 404
                   /\ KEEPS' = KEEPS]_vars

C8_Witness ==
    /\ Answered("delete_keeps_uuid")
    /\ last.resp.status = 200
    /\ Size(KEEPS) = 1

\* C9 as stated: every request no route serves is answered 404.
C9_UnmatchedIsNotFound ==
    Answered("none") => last.resp.status = 404

\* a path one of the six routes is declared on
RoutedPath(path) ==
    \/ path \in {<< "contracts" >>, << "keeps" >>}
    \/ Len(path) = 2 /\ path[1] \in {"contracts", "keeps"} /\ IsUuidText(path[2])

\* C9 amended: a request no route serves is answered 404 when its path is
\* that of no route, and 405 when its path is that of a route whose method
\* it does not carry.
C9_UnmatchedPathOrMethod ==
    Answered("none")
      => last.resp.status = IF RoutedPath(last.req.path) THEN 405 ELSE 404

C9_Witness ==
    /\ Answered("none")
    /\ last.req.method = "DELETE"
    /\ last.req.path = << "contracts" >>
    /\ last.resp.status = 405

\* a request to /contracts/{x} or /keeps/{x} whose x spells no uuid
Malformed(r) ==
    /\ Len(r.path) = 2
    /\ r.path[1] \in {"contracts", "keeps"}
    /\ ~IsUuidText(r.path[2])

\* C10: a request to /contracts/{x} or /keeps/{x} whose x spells no uuid
\* matches no route whatever its method: it is answered 404 at once, never
\* 400, and the registry and its lock are neither taken nor changed.
C10_MalformedIdUnmatched ==
    /\ [](\A p \in Procs : ~Malformed(req[p]))
    /\ []((last # NoLast /\ Malformed(last.req))
            => /\ last.req.route = "none"
               /\ last.resp.status = 404
               /\ last.local = NoLocal)
    /\ [][(last' # NoLast /\ Malformed(last'.req))
            => UNCHANGED << KEEPS, writer, readers, pc >>]_vars

C10_Witness ==
    /\ last # NoLast
    /\ Malformed(last.req)
    /\ last.req.method = "DELETE"
    /\ last.req.path[1] = "keeps"
    /\ last.resp.status = 404
    /\ Size(KEEPS) = 1

\* ---- the listener: what the properties read ----
\* s is an optional sign followed by one decimal digit at least
IsSignedDecimal(s) ==
    /\ s # << >>
    /\ LET from == IF s[1] \in {"+", "-"} THEN 2 ELSE 1
       IN  /\ from <= Len(s)
           /\ \A i \in from..Len(s) : IsDigit(s[i])

\* s is one decimal digit at least, with a '+' before it or not
IsNonNegativeDecimal(s) == IsSignedDecimal(s) /\ s[1] # "-"

\* the digits of a signed decimal without its sign and leading zeros
RECURSIVE Significant(_)
Significant(s) ==
    IF s = << >> THEN << >>
    ELSE IF Head(s) \in {"+", "-", "0"} THEN Significant(Tail(s))
    ELSE s

\* a <= b for two numerals of the same length
RECURSIVE NumeralLeq(_, _)
NumeralLeq(a, b) ==
    IF a = << >> THEN TRUE
    ELSE IF DigitVal(Head(a)) # DigitVal(Head(b)) THEN DigitVal(Head(a)) < DigitVal(Head(b))
    ELSE NumeralLeq(Tail(a), Tail(b))

\* s spells an integer of -2^31 .. 2^31 - 1
IsI32Text(s) ==
    /\ IsSignedDecimal(s)
    /\ LET m == Significant(s)
           limit == IF s[1] = "-"
                    THEN << "2", "1", "4", "7", "4", "8", "3", "6", "4", "8" >>
                    ELSE << "2", "1", "4", "7", "4", "8", "3", "6", "4", "7" >>
       IN  \/ Len(m) < Len(limit)
           \/ Len(m) = Len(limit) /\ NumeralLeq(m, limit)

\* what one run of from_str did fits the branch it took: no bind on the
\* descriptor branch, one bind on the others, one listener at most and of
\* the branch's kind
OneBranch(r) ==
    /\ r.branch \in {"fd", "path", "host"}
    /\ r.binds = IF r.branch = "fd" THEN 0 ELSE 1
    /\ r.result \in {"Unix", "Tcp", "Err"}
    /\ r.branch = "path" => r.result # "Tcp"
    /\ r.branch = "host" => r.result # "Unix"

\* C15 as stated: the descriptor branch is taken exactly when the string is
\* a non-negative integer, else the path branch when it begins with '/',
\* else the host:port branch; one branch runs and yields one listener at most.
C15_BranchByNonNegative ==
    \A i \in 1..Len(calls) :
        /\ calls[i].branch =
             IF IsNonNegativeDecimal(listen) THEN "fd"
             ELSE IF listen # << >> /\ listen[1] = "/" THEN "path"
             ELSE "host"
        /\ OneBranch(calls[i])

\* C15 amended: the descriptor branch is taken exactly when the string
\* spells a 32-bit signed integer, a negative one included and one beyond
\* 2^31 - 1 not; else the path branch when it begins with '/'; else, the
\* empty string included, the host:port branch.  One branch runs and yields
\* one listener at most.
C15_BranchByI32 ==
    \A i \in 1..Len(calls) :
        /\ calls[i].branch =
             IF IsI32Text(listen) THEN "fd"
             ELSE IF listen # << >> /\ listen[1] = "/" THEN "path"
             ELSE "host"
        /\ OneBranch(calls[i])

C15_Witness ==
    /\ Len(calls) = 1
    /\ listen = << "-", "1" >>
    /\ calls[1].branch = "fd"
    /\ calls[1].result = "Err"
    /\ phase = "exit_usage"

\* the big number goes to the host:port branch
C15_OverflowWitness ==
    /\ Len(calls) = 1
    /\ Len(listen) = 10
    /\ calls[1].branch = "host"
    /\ calls[1].err = "InvalidInput"

\* C16: a run of from_str on a string that spells a descriptor binds nothing
\* and takes no other branch; it returns a Unix listener when the descriptor's
\* family is Unix, a Tcp listener when it is Inet, and an InvalidInput error,
\* with no listener, when the descriptor is no socket or of another family.
C16_DescriptorBranch ==
    [][(Len(calls') = Len(calls) + 1 /\ FromStrRadix10(listen).ok)
         => LET r == calls'[Len(calls')]
                fam == IF r.fd \in DOMAIN fdtab THEN fdtab[r.fd] ELSE "Closed"
            IN  /\ r.branch = "fd"
                /\ r.binds = 0
                /\ inuse' = inuse
                /\ r.fd = FromStrRadix10(listen).val
                /\ r.result = CASE fam = "Unix" -> "Unix"
                                [] fam = "Inet" -> "Tcp"
                                [] OTHER        -> "Err"
                /\ r.result = "Err" => (r.err = "InvalidInput" /\ listener' = "none")]_vars

C16_Witness ==
    /\ Len(calls) = 1
    /\ listen = << "3" >>
    /\ calls[1].branch = "fd"
    /\ calls[1].err = "InvalidInput"
    /\ fdtab[3] = "Other"
    /\ inuse = {HostPort}

\* a Unix descriptor adopted
C16_AdoptedWitness ==
    /\ Len(calls) = 1
    /\ calls[1].branch = "fd"
    /\ calls[1].result = "Unix"

\* C17: the listener is acquired exactly once and before any request is
\* served; when the acquisition fails the process ends with an error, having
\* run from_str once, served no request and left the registry empty.
C17_AcquiredOnce ==
    /\ Len(calls) <= 1
    /\ phase = "serving" => (Len(calls) = 1 /\ listener # "none")
    /\ phase # "serving"
         => nreq = 0 /\ KEEPS = EmptyMap /\ writer = 0 /\ readers = {}
    /\ (Len(calls) = 1 /\ calls[1].result = "Err") => phase = "exit_usage"

\* ---- the catalog: what the properties read ----
\* the four contracts, as the tests and the clients know them
ListedCatalog ==
    << Contract(58915, "Nil"), Contract(2810, "Kvm"),
       Contract(12708, "Sev"), Contract(59961, "Sgx") >>

LastContract == DeContract(last.resp.body[1])
LastContracts == DeContracts(last.resp.body[1])

\* C11: every GET /contracts of contractmgr is answered 200 with the same four
\* contracts, Nil, Kvm, Sev and Sgx with their uuids, in that order, whatever
\* claims and deletes came before it.
C11_CatalogStable ==
    Answered("get_contracts")
      => /\ last.resp.status = 200
         /\ LastContracts = ListedCatalog
         /\ Cardinality({LastContracts[i].backend : i \in 1..Len(LastContracts)}) = 4

C11_Witness ==
    /\ Answered("get_contracts")
    /\ LastContracts[3].backend = "Sev"
    /\ \E k \in KeepIds : delOk[k] = 1
    /\ Size(created) = 1

\* C12: the catalog's uuids are pairwise distinct; a GET /contracts/{id} is
\* answered 200 with the listed contract of that uuid, uuid and backend alike,
\* when the id is a listed contract's, and 404 for every other id.
C12_LookupMatchesList ==
    /\ \A i, j \in 1..Len(ListedCatalog) :
          i # j => ListedCatalog[i].uuid # ListedCatalog[j].uuid
    /\ Answered("get_contracts_uuid")
         => IF \E i \in 1..Len(ListedCatalog) : ListedCatalog[i].uuid = LastArg
            THEN /\ last.resp.status = 200
                 /\ LastContract.uuid = LastArg
                 /\ \E i \in 1..Len(ListedCatalog) : ListedCatalog[i] = LastContract
            ELSE /\ last.resp.status = 404
                 /\ last.resp.body = << >>

C12_Witness ==
    /\ Answered("get_contracts_uuid")
    /\ last.resp.status = 200
    /\ LastContract = Contract(59961, "Sgx")

\* the lookup of an id that is a keep's, not a contract's
C12_MissWitness ==
    /\ Answered("get_contracts_uuid")
    /\ last.resp.status = 404
    /\ LastArg \in DOMAIN KEEPS

\* ---- keepmgr: what the properties read ----
KAnswered(route) == klast # NoKLast /\ klast.req.route = route
KLastArg == ParseUuid(klast.req.path[2])
KLastContract == DeContract(klast.resp.body[1])
KLastContracts == DeContracts(klast.resp.body[1])

\* the places of the catalog whose contract was supported when the request
\* examined it: Nil's always, another's when its device node was there
Supported(seen) ==
    {i \in 1..Len(ListedCatalog) : ListedCatalog[i].backend = "Nil" \/ seen[i]}

\* the n-th smallest of a set of numbers
Nth(S, n) == CHOOSE i \in S : Cardinality({j \in S : j <= i}) = n

\* C13: every 200 of GET /contracts, GET /contracts/{id}, GET /keeps and
\* GET /keeps/{id} and every 201 of POST /contracts/{id} carries Content-Type
\* "application/cbor", from contractmgr and from keepmgr alike.
C13_BodiesAreTagged ==
    /\ (/\ last # NoLast
        /\ last.req.route \in {"get_contracts", "get_contracts_uuid", "get_keeps",
                               "get_keeps_uuid", "post_contracts_uuid"}
        /\ last.resp.status \in {200, 201})
         => last.resp.ctype = "application/cbor" /\ last.resp.body # << >>
    /\ (/\ klast # NoKLast
        /\ klast.req.route \in {"get_contracts", "get_contracts_uuid"}
        /\ klast.resp.status = 200)
         => klast.resp.ctype = "application/cbor" /\ klast.resp.body # << >>

C13_Witness ==
    /\ KAnswered("get_contracts_uuid")
    /\ klast.resp.status = 200
    /\ klast.resp.ctype = "application/cbor"
    /\ KLastContract.backend = "Kvm"
    /\ Size(created) = 1

\* the 201 of contractmgr
C13_CreatedWitness ==
    /\ last.resp.status = 201
    /\ last.resp.ctype = "application/cbor"
    /\ klisted # << >>

\* C18: keepmgr answers every GET /contracts with 200 and the contracts of the
\* catalog, in catalog order and as the catalog has them, whose backend was
\* supported when the request examined it: Nil always, Kvm, Sev and Sgx when
\* their device node was there.  The first of them is Nil's, so the list is
\* never empty.
C18_SupportedSubsequence ==
    KAnswered("get_contracts")
      => LET S == Supported(klast.local.seen)
         IN  /\ klast.resp.status = 200
             /\ Len(klast.local.seen) = Len(ListedCatalog)
             /\ Len(KLastContracts) = Cardinality(S)
             /\ \A n \in 1..Len(KLastContracts) : KLastContracts[n] = ListedCatalog[Nth(S, n)]
             /\ KLastContracts # << >>
             /\ KLastContracts[1].backend = "Nil"

C18_Witness ==
    /\ KAnswered("get_contracts")
    /\ Len(KLastContracts) = 2
    /\ KLastContracts[2].backend = "Sev"
    /\ devices = {"/dev/kvm"}

\* C19 as stated: a GET /contracts/{id} for the uuid of a contract that the
\* latest GET /contracts response listed is answered 200 with that contract,
\* whatever happened in between.
C19_ListedIsFound ==
    KAnswered("get_contracts_uuid")
      => \A n \in 1..Len(klisted) :
            klisted[n].uuid = KLastArg
              => klast.resp.status = 200 /\ KLastContract = klisted[n]

\* C19 amended: such a request is answered 200 with the listed contract when
\* the contract's backend is supported as the request examines it, as Nil
\* always is, and 404 when its device node has gone since the list.
C19_ListedIsFoundWhileSupported ==
    KAnswered("get_contracts_uuid")
      => \A n \in 1..Len(klisted) :
            klisted[n].uuid = KLastArg
              => IF \E i \in Supported(klast.local.seen) : ListedCatalog[i] = klisted[n]
                 THEN klast.resp.status = 200 /\ KLastContract = klisted[n]
                 ELSE klast.resp.status = 404 /\ klast.resp.body = << >>

C19_Witness ==
    /\ KAnswered("get_contracts_uuid")
    /\ klast.resp.status = 404
    /\ \E n \in 1..Len(klisted) : klisted[n].uuid = KLastArg

\* a listed hardware contract found again
C19_FoundWitness ==
    /\ KAnswered("get_contracts_uuid")
    /\ klast.resp.status = 200
    /\ KLastContract.backend = "Sgx"
    /\ \E n \in 1..Len(klisted) : klisted[n] = KLastContract

\* ---- the client: what the properties read ----
Received == cpc = "done" /\ cresp # NoResponse
IsSuccessStatus(code) == code >= 200 /\ code <= 299

\* C14 as stated: the client decodes the body only of a response with a
\* success status and Content-Type exactly "application/cbor"; whenever the
\* header is missing or differs the command ends with InvalidHeaderValue and
\* nothing is decoded.
C14_DecodeOnlyTagged ==
    /\ cout.decoded
         => IsSuccessStatus(cresp.status) /\ cresp.ctype = "application/cbor"
    /\ (Received /\ cresp.ctype # "application/cbor")
         => cout.result = "InvalidHeaderValue" /\ ~cout.decoded

\* C14 amended: the client decodes the body only of a response whose status
\* is no 4xx or 5xx and whose Content-Type is exactly "application/cbor";
\* when such a response's header is missing or differs the command ends with
\* InvalidHeaderValue and nothing is decoded; a 4xx or 5xx response ends the
\* command with the status error, whatever its header, and nothing is decoded.
C14_DecodeOnlyUnfailedTagged ==
    /\ cout.decoded
         => cresp.status < 400 /\ cresp.ctype = "application/cbor"
    /\ (Received /\ cresp.status < 400 /\ cresp.ctype # "application/cbor")
         => cout.result = "InvalidHeaderValue" /\ ~cout.decoded
    /\ (Received /\ cresp.status >= 400)
         => cout.result = "Reqwest" /\ ~cout.decoded
    /\ (Received /\ cresp.status < 400 /\ cresp.ctype = "application/cbor")
         => cout.decoded

C14_Witness ==
    /\ Received
    /\ cmd = "list"
    /\ cresp.status = 200
    /\ cresp.ctype = "Application/CBOR"
    /\ cresp.body = "array"
    /\ cout = Finished("InvalidHeaderValue", FALSE)

\* a tagged body decoded
C14_DecodedWitness ==
    /\ Received
    /\ cmd = "show"
    /\ cresp.status = 200
    /\ cout = Finished("Ok", TRUE)

\* C20 as stated: GET /keeps and GET /keeps/{id} hold the registry as readers
\* only, never as the writer, while claim and delete hold it as the writer.
C20_ReadsAreShared ==
    \A p \in Procs :
        /\ pc[p] \in {"list_values", "get_reply"} => writer # p
        /\ pc[p] = "get_reply" => p \in readers
        /\ pc[p] = "list_values" => p \in readers

\* ---- the registry lock: what the properties read ----
\* the task is about to run cborize on the body of its response
Encoding(p) ==
    \/ pc[p] \in {"post_reply", "list_reply"}
    \/ pc[p] = "get_reply" /\ local[p].keep # NoKeep
Holds(p) == writer = p \/ p \in readers

\* C21 as stated: no handler of a claim, list, get or delete encodes its
\* response body while it holds the registry lock.
C21_NoEncodeUnderLock ==
    \A p \in Procs : Encoding(p) => ~Holds(p)

\* the step of task p is one of a request that reads: a list or a get
ReadStep(p) ==
    /\ pc[p] \in {"list_lock", "list_values", "list_reply", "get_match", "get_reply"}
    /\ << pc[p], local[p] >> # << pc'[p], local'[p] >>

\* the step returns the response of a request that is no successful claim
\* and no successful delete
OtherReply ==
    /\ last = NoLast
    /\ last' # NoLast
    /\ ~(last'.req.route = "post_contracts_uuid" /\ last'.resp.status = 201)
    /\ ~(last'.req.route = "delete_keeps_uuid" /\ last'.resp.status = 200)

\* C22: the registry changes only in the insertion of a claim that is
\* answered 201, which adds one entry, and in the removal of a delete that is
\* answered 200, which takes one out; every step of a list or a get, and every
\* request answered otherwise (404 or 405, unknown contract, absent keep, no
\* route), leaves it as it is, and an entry that stays keeps its record.
C22_RegistryFrame ==
    [][/\ KEEPS' # KEEPS
          => \E p \in Procs :
                \/ /\ InsertStep(p)
                   /\ local[p].kuuid \notin DOMAIN KEEPS
                   /\ DOMAIN KEEPS' = DOMAIN KEEPS \cup {local[p].kuuid}
                \/ /\ RemoveStep(p)
                   /\ last'.resp.status = 200
                   /\ local[p].kuuid \in DOMAIN KEEPS
                   /\ DOMAIN KEEPS' = DOMAIN KEEPS \ {local[p].kuuid}
       /\ \A k \in DOMAIN KEEPS \cap DOMAIN KEEPS' : KEEPS'[k] = KEEPS[k]
       /\ (\E p \in Procs : ReadStep(p)) => KEEPS' = KEEPS
       /\ OtherReply => KEEPS' = KEEPS]_vars

C22_Witness ==
    /\ Answered("delete_keeps_uuid")
    /\ last.resp.status = 404
    /\ Size(KEEPS) = 1
    /\ KEEPS[CHOOSE k \in DOMAIN KEEPS : TRUE] = created[CHOOSE k \in DOMAIN KEEPS : TRUE]

\* C24: the registry is empty until a uuid has been drawn for a first keep;
\* every entry's key is the uuid of the keep stored under it, and every
\* stored keep's contract, uuid and backend, is one of the catalog's four.
C24_RegistryWellFormed ==
    /\ issued = {} => KEEPS = EmptyMap
    /\ DOMAIN KEEPS \subseteq issued
    /\ \A k \in DOMAIN KEEPS :
          /\ KEEPS[k].uuid = k
          /\ \E i \in 1..Len(ListedCatalog) : ListedCatalog[i] = KEEPS[k].contract

C24_Witness ==
    /\ Size(KEEPS) = 2
    /\ KEEPS[1].contract.backend = "Kvm"
    /\ KEEPS[2].contract.backend = "Nil"
    /\ \E p \in Procs : pc[p] = "get_reply"

\* the lock-taking step of each operation starts from one of these places
LockLabels == {"post_insert", "list_lock", "get_match", "delete_remove"}

\* C23: a registry operation reaches its lock-taking step once, on arrival,
\* and takes the lock nowhere else; a task holds no lock once its response is
\* returned; while a request is under way some task can take a step; and,
\* the handlers being scheduled fairly, every request under way ends with
\* its response.
C23_SingleSectionAndProgress ==
    /\ [](\A p \in Procs : pc[p] = "idle" => ~Holds(p))
    /\ []((\E p \in Procs : pc[p] # "idle")
            => (~Delivered \/ ENABLED (\E p \in Procs : Step(p))))
    /\ [][\A p \in Procs :
            /\ (pc'[p] \in LockLabels /\ pc'[p] # pc[p]) => pc[p] = "idle"
            /\ (Holds(p)' /\ ~Holds(p)) => pc[p] \in LockLabels
            /\ (pc[p] # "idle" /\ pc'[p] = "idle")
                 => /\ ~Holds(p)'
                    /\ last' # NoLast
                    /\ last'.resp.status \in {200, 201, 404}]_vars
    /\ \A p \in Procs : (pc[p] # "idle") ~> (pc[p] = "idle")

C23_Witness ==
    /\ pc[1] = "get_reply"
    /\ writer = 1
    /\ pc[2] \in {"post_insert", "delete_remove", "list_lock"}
    /\ ~ENABLED Step(2)

====
